---- MODULE Spec2Model ----
(***************************************************************************)
(* Partition-table analyzer (MBR / GPT): the browser binding               *)
(* (wasm-ver.go, analyzeDiskImage) and the command-line tool (main) as a   *)
(* state machine over one input image.                                     *)
(*                                                                         *)
(* Fixed-width machine integers (uint16/uint32/uint64/int) are kept as     *)
(* little-endian tuples of base-256 digits, so that every multiplication   *)
(* and addition wraps exactly as the Go code's does.                       *)
(***************************************************************************)
EXTENDS Integers, Sequences, FiniteSets, TLC

VARIABLES dataLen, mbr, hdr, ents, pc, report, cli

input == <<dataLen, mbr, hdr, ents>>
vars == <<dataLen, mbr, hdr, ents, pc, report, cli>>

---------------------------------------------------------------------------
(* Program constants *)

MBR_SIGNATURE == 43605

SECTOR_SIZE == 512

GPT_SIGNATURE == <<69, 70, 73, 32, 80, 65, 82, 84>>

---------------------------------------------------------------------------
(* Fixed-width arithmetic on little-endian base-256 digit tuples *)

RECURSIVE Digits(_, _)
Digits(n, w) == IF w = 0 THEN <<>> ELSE <<n % 256>> \o Digits(n \div 256, w - 1)

Zeros(w) == [i \in 1..w |-> 0]

\* zero-extension (uint32 -> int / uint64) or truncation to w digits
Extend(d, w) == [i \in 1..w |-> IF i <= Len(d) THEN d[i] ELSE 0]

\* TRUE when the value fits in the three low digits (below 2^24)
IsSmall(d) == \A i \in 1..Len(d) : i > 3 => d[i] = 0

\* value of a small digit tuple
Val(d) == Extend(d, 3)[1] + 256 * Extend(d, 3)[2] + 65536 * Extend(d, 3)[3]

RECURSIVE AddCarry(_, _, _, _)
AddCarry(a, b, i, c) ==
    IF i > Len(a) THEN <<>>
    ELSE LET s == a[i] + b[i] + c
         IN  <<s % 256>> \o AddCarry(a, b, i + 1, s \div 256)

\* a + b modulo 256^Len(a)
Add(a, b) == AddCarry(a, b, 1, 0)

\* a - b modulo 256^Len(a)
Sub(a, b) == AddCarry(a, [i \in 1..Len(b) |-> 255 - b[i]], 1, 1)

RECURSIVE ColSum(_, _, _, _)
ColSum(a, b, k, i) ==
    IF i > k THEN 0 ELSE a[i] * b[k + 1 - i] + ColSum(a, b, k, i + 1)

RECURSIVE MulCarry(_, _, _, _)
MulCarry(a, b, k, c) ==
    IF k > Len(a) THEN <<>>
    ELSE LET s == ColSum(a, b, k, 1) + c
         IN  <<s % 256>> \o MulCarry(a, b, k + 1, s \div 256)

\* a * b modulo 256^Len(a)
Mul(a, b) == MulCarry(a, b, 1, 0)

RECURSIVE LtFrom(_, _, _)
LtFrom(a, b, i) ==
    IF i = 0 THEN FALSE
    ELSE IF a[i] # b[i] THEN a[i] < b[i]
    ELSE LtFrom(a, b, i - 1)

\* unsigned comparison
LtU(a, b) == LtFrom(a, b, Len(a))

\* sign bit of a two's-complement int
Neg(d) == d[Len(d)] >= 128

\* signed comparison of two's-complement ints
LtS(a, b) == IF Neg(a) # Neg(b) THEN Neg(a) ELSE LtU(a, b)

LeS(a, b) == ~LtS(b, a)

\* binary.LittleEndian.Uint16
Uint16(b) == b[1] + 256 * b[2]

---------------------------------------------------------------------------
(* The input image: a byte array described by its length, the decoded      *)
(* fields of its first two sectors and the entries laid out after them.    *)
(* Every byte not named by the description is zero.                        *)

MBRSlotOffset(i) == 446 + i * 16

SlotByte(s, off) ==
    IF off = 0 THEN s.status
    ELSE IF off = 4 THEN s.type
    ELSE IF off >= 8 /\ off < 12 THEN s.start[off - 7]
    ELSE IF off >= 12 THEN s.size[off - 11]
    ELSE 0

HeaderByte(off) ==
    IF off < 8 THEN hdr.sig[off + 1]
    ELSE IF off < 12 THEN hdr.revision[off - 7]
    ELSE IF off >= 72 /\ off < 80 THEN hdr.lba[off - 71]
    ELSE IF off >= 80 /\ off < 84 THEN hdr.num[off - 79]
    ELSE IF off >= 84 /\ off < 88 THEN hdr.esize[off - 83]
    ELSE 0

EntryByte(e, off) ==
    IF off < 16 THEN e.guid[off + 1]
    ELSE IF off < 32 THEN e.fill
    ELSE IF off < 40 THEN e.start[off - 31]
    ELSE IF off < 48 THEN e.end[off - 39]
    ELSE IF off < 56 THEN e.fill
    ELSE IF off < 56 + Len(e.name) THEN e.name[off - 55]
    ELSE 0

\* the entries of the description are laid out from byte 1024 on, one every
\* ents.stride bytes; a field that does not fit in the stride is cut off
EntBase == 2 * SECTOR_SIZE

Byte(i) ==
    IF i >= 446 /\ i < 510 THEN SlotByte(mbr.slots[(i - 446) \div 16 + 1], (i - 446) % 16)
    ELSE IF i = 510 \/ i = 511 THEN mbr.sig[i - 509]
    ELSE IF i >= SECTOR_SIZE /\ i < EntBase THEN HeaderByte(i - SECTOR_SIZE)
    ELSE IF i >= EntBase /\ (i - EntBase) \div ents.stride < Len(ents.list)
         THEN EntryByte(ents.list[(i - EntBase) \div ents.stride + 1], (i - EntBase) % ents.stride)
    ELSE 0

Bytes(lo, n) == [k \in 1..n |-> Byte(lo + k - 1)]

---------------------------------------------------------------------------
(* Records of the report (PartitionInfo) and the report (AnalysisResult)   *)

\* Info and Note are the Sprintf texts; the numbers formatted into them are
\* kept beside them: Rev (revision>>16, revision&0xFFFF), Count
\* (numPartitions) and Required (requiredSize)
NoInfo == [Number |-> 0, Status |-> "", Type |-> <<>>, StartLBA |-> Zeros(8),
           EndLBA |-> Zeros(8), SizeNum |-> Zeros(8), Description |-> "",
           Name |-> <<>>, Info |-> "", Note |-> "", Rev |-> <<0, 0>>,
           Count |-> Zeros(4), Required |-> Zeros(8)]

NoReport == [panic |-> FALSE, Error |-> "", TableType |-> "", Partitions |-> <<>>]

\* fmt.Sprintf("0x%02X", partType): the two hexadecimal digits
Hex2(b) == <<b \div 16, b % 16>>

getMBRTypeDescription(partType) ==
    CASE partType = 0 -> "Empty"
      [] partType = 1 -> "FAT12"
      [] partType = 4 -> "FAT16 <32M"
      [] partType = 5 -> "Extended"
      [] partType = 6 -> "FAT16"
      [] partType = 7 -> "HPFS/NTFS/exFAT"
      [] partType = 11 -> "W95 FAT32"
      [] partType = 12 -> "W95 FAT32 (LBA)"
      [] partType = 14 -> "W95 FAT16 (LBA)"
      [] partType = 15 -> "W95 Ext'd (LBA)"
      [] partType = 17 -> "Hidden FAT12"
      [] partType = 20 -> "Hidden FAT16 <32M"
      [] partType = 22 -> "Hidden FAT16"
      [] partType = 23 -> "Hidden HPFS/NTFS"
      [] partType = 27 -> "Hidden W95 FAT32"
      [] partType = 28 -> "Hidden W95 FAT32 (LBA)"
      [] partType = 30 -> "Hidden W95 FAT16 (LBA)"
      [] partType = 130 -> "Linux swap"
      [] partType = 131 -> "Linux"
      [] partType = 133 -> "Linux extended"
      [] partType = 142 -> "Linux LVM"
      [] partType = 160 -> "Hibernation"
      [] partType = 165 -> "FreeBSD"
      [] partType = 166 -> "OpenBSD"
      [] partType = 168 -> "Darwin UFS"
      [] partType = 169 -> "NetBSD"
      [] partType = 171 -> "Darwin boot"
      [] partType = 175 -> "HFS / HFS+"
      [] partType = 190 -> "Solaris boot"
      [] partType = 191 -> "Solaris"
      [] partType = 235 -> "BeOS fs"
      [] partType = 238 -> "GPT"
      [] partType = 239 -> "EFI (FAT-12/16/32)"
      [] partType = 251 -> "VMware VMFS"
      [] partType = 252 -> "VMware VMKCORE"
      [] partType = 253 -> "Linux raid autodetect"
      [] OTHER -> "Unknown"

---------------------------------------------------------------------------
(* MBR reader (both shells decode a slot the same way)                     *)

\* the slot is reported when its type byte is nonzero
SlotUsed(partType) == partType # 0

\* the number a record of slot i carries (partCount: records emitted so far,
\* this one included)
MBRNumber_count(i, partCount) == partCount

MBRNumber(i, partCount) == i + 1

\* uint32 product sizeBlocks*SECTOR_SIZE, the numerator of sizeGB
MBRSizeNum(sizeBlocks) == Mul(sizeBlocks, Digits(SECTOR_SIZE, 4))

MBRRecord(i, partCount) ==
    LET offset     == MBRSlotOffset(i)
        status     == Byte(offset)
        partType   == Byte(offset + 4)
        startLBA   == Bytes(offset + 8, 4)
        sizeBlocks == Bytes(offset + 12, 4)
    IN  [NoInfo EXCEPT !.Number = MBRNumber(i, partCount),
                       !.Status = IF status = 128 THEN "Active" ELSE "Inactive",
                       !.Type = Hex2(partType),
                       !.StartLBA = Extend(startLBA, 8),
                       !.SizeNum = Extend(MBRSizeNum(sizeBlocks), 8),
                       !.Description = getMBRTypeDescription(partType)]

RECURSIVE MBRLoop(_, _)
MBRLoop(i, partitions) ==
    IF i >= 4 THEN partitions
    ELSE IF SlotUsed(Byte(MBRSlotOffset(i) + 4))
         THEN MBRLoop(i + 1, Append(partitions, MBRRecord(i, Len(partitions) + 1)))
    ELSE MBRLoop(i + 1, partitions)

readMBRPartitions == MBRLoop(0, <<>>)

---------------------------------------------------------------------------
(* GPT reader of the browser binding (wasm-ver.go)                         *)

Advisory(info, note) == [NoInfo EXCEPT !.Number = 1, !.Info = info, !.Note = note]

RevPair(revision) == <<revision[3] + 256 * revision[4], revision[1] + 256 * revision[2]>>

\* the scan of the 16 type-GUID bytes of partBytes (plen bytes at base):
\* "panic" on an index outside partBytes, else "used" or "zero"
RECURSIVE GuidScan(_, _, _)
GuidScan(base, plen, j) ==
    IF j >= 16 THEN "zero"
    ELSE IF j >= plen THEN "panic"
    ELSE IF Byte(base + j) # 0 THEN "used"
    ELSE GuidScan(base, plen, j + 1)

\* which code units of the name the binding keeps
KeepUnit(lo, hi) == hi = 0 /\ lo >= 32 /\ lo <= 126

RECURSIVE NameScan(_, _, _)
NameScan(base, plen, j) ==
    IF ~(j < 56 + 72 /\ j + 1 < plen) THEN <<>>
    ELSE IF Byte(base + j) = 0 /\ Byte(base + j + 1) = 0 THEN <<>>
    ELSE (IF KeepUnit(Byte(base + j), Byte(base + j + 1)) THEN <<Byte(base + j)>> ELSE <<>>)
         \o NameScan(base, plen, j + 2)

Unnamed == <<85, 110, 110, 97, 109, 101, 100>>

\* uint64 numerator of sizeGB: (endLBA-startLBA+1)*SECTOR_SIZE
GPTSizeNum(startLBA, endLBA) ==
    Mul(Add(Sub(endLBA, startLBA), Digits(1, 8)), Digits(SECTOR_SIZE, 8))

\* the record of a used entry: partBytes is plen bytes at base, sliced out of
\* data, so the two LBA slices are bounded by data's capacity (its length)
GPTRecord(base, plen, partCount) ==
    LET startLBA == Bytes(base + 32, 8)
        endLBA   == Bytes(base + 40, 8)
        name     == NameScan(base, plen, 56)
    IN  IF base + 48 > dataLen THEN [panic |-> TRUE, rec |-> NoInfo]
        ELSE [panic |-> FALSE,
              rec |-> [NoInfo EXCEPT !.Number = partCount,
                                     !.StartLBA = startLBA,
                                     !.EndLBA = endLBA,
                                     !.SizeNum = GPTSizeNum(startLBA, endLBA),
                                     !.Name = IF name = <<>> THEN Unnamed ELSE name]]

\* int(partitionTableLBA * SECTOR_SIZE)
TableOffset(lba) == Mul(lba, Digits(SECTOR_SIZE, 8))

\* int(i * partitionEntrySize), the product taken in uint32
EntryDelta(i, esize) == Extend(Mul(Digits(i, 4), esize), 8)

\* requiredSize
RequiredSize(lba, num, esize) == Add(TableOffset(lba), Extend(Mul(num, esize), 8))

RECURSIVE GPTLoop(_, _, _, _, _)
GPTLoop(lba, num, esize, i, partitions) ==
    LET entryOffset == Add(TableOffset(lba), EntryDelta(i, esize))
        entryEnd    == Add(entryOffset, Extend(esize, 8))
    IN  IF ~(LtU(Digits(i, 4), num) /\ LeS(entryEnd, Digits(dataLen, 8)))
        THEN [panic |-> FALSE, parts |-> partitions]
        \* data[entryOffset : entryOffset+int(partitionEntrySize)]
        ELSE IF Neg(entryOffset) \/ Neg(entryEnd) \/ LtS(entryEnd, entryOffset)
        THEN [panic |-> TRUE, parts |-> partitions]
        ELSE LET base == Val(entryOffset)
                 plen == Val(entryEnd) - Val(entryOffset)
                 scan == GuidScan(base, plen, 0)
                 r    == GPTRecord(base, plen, Len(partitions) + 1)
             IN  IF scan = "panic" THEN [panic |-> TRUE, parts |-> partitions]
                 ELSE IF scan = "zero" THEN GPTLoop(lba, num, esize, i + 1, partitions)
                 ELSE IF r.panic THEN [panic |-> TRUE, parts |-> partitions]
                 ELSE GPTLoop(lba, num, esize, i + 1, Append(partitions, r.rec))

readGPTPartitions ==
    IF dataLen < SECTOR_SIZE * 2
    THEN [panic |-> FALSE,
          parts |-> <<Advisory("GPT detected but insufficient data",
                               "Need at least 1KB of data to read GPT header")>>]
    ELSE IF Bytes(SECTOR_SIZE, 8) # GPT_SIGNATURE
    THEN [panic |-> FALSE,
          parts |-> <<Advisory("Invalid GPT signature in header",
                               "GPT structure may be corrupted")>>]
    ELSE LET revision == Bytes(SECTOR_SIZE + 8, 4)
             num      == Bytes(SECTOR_SIZE + 80, 4)
             esize    == Bytes(SECTOR_SIZE + 84, 4)
             lba      == Bytes(SECTOR_SIZE + 72, 8)
             required == RequiredSize(lba, num, esize)
             loop     == GPTLoop(lba, num, esize, 0, <<>>)
         IN  IF LtS(Digits(dataLen, 8), required)
             THEN [panic |-> FALSE,
                   parts |-> <<[Advisory("GPT detected (Rev %d.%d, %d partitions)",
                                         "Need at least %d bytes to read all partition entries")
                                EXCEPT !.Rev = RevPair(revision), !.Count = num,
                                       !.Required = required]>>]
             ELSE IF loop.panic THEN loop
             ELSE IF Len(loop.parts) = 0
             THEN [panic |-> FALSE,
                   parts |-> <<[Advisory("GPT structure valid (Rev %d.%d)",
                                         "No active partitions found in partition table")
                                EXCEPT !.Rev = RevPair(revision)]>>]
             ELSE loop

---------------------------------------------------------------------------
(* analyzeDiskImage (wasm-ver.go)                                          *)

\* the boot signature read from data[510:512]
BootSignature_bigEndian(b) == 256 * b[1] + b[2]

BootSignature(b) == Uint16(b)

analyzeDiskImage ==
    IF dataLen < SECTOR_SIZE
    THEN [NoReport EXCEPT !.Error = "Data too small to contain MBR"]
    ELSE IF BootSignature(Bytes(510, 2)) # MBR_SIGNATURE
    THEN [NoReport EXCEPT !.Error = "Invalid MBR signature"]
    ELSE IF Byte(446 + 4) = 238
    \* a panic in the reader leaves no report; the kind was set before it
    THEN IF readGPTPartitions.panic
         THEN [NoReport EXCEPT !.panic = TRUE, !.TableType = "GPT"]
         ELSE [NoReport EXCEPT !.TableType = "GPT", !.Partitions = readGPTPartitions.parts]
    ELSE [NoReport EXCEPT !.TableType = "MBR", !.Partitions = readMBRPartitions]

AnalyzeDiskImage ==
    /\ pc.wasm = "idle"
    /\ report' = analyzeDiskImage
    /\ pc' = [pc EXCEPT !.wasm = "done"]
    /\ UNCHANGED <<input, cli>>

---------------------------------------------------------------------------
(* The command-line tool (main and its two readers)                        *)

NoOutput == [panic |-> FALSE, exit |-> 0, messages |-> <<>>, TableType |-> "",
             Rev |-> <<0, 0>>, Count |-> Zeros(4), rows |-> <<>>]

\* fmt.Printf("0x%-10X", partType): the hexadecimal digits, not zero-padded
HexX(b) == IF b < 16 THEN <<b>> ELSE <<b \div 16, b % 16>>

RECURSIVE cliMBRLoop(_, _)
cliMBRLoop(i, rows) ==
    IF i >= 4 THEN rows
    ELSE IF SlotUsed(Byte(MBRSlotOffset(i) + 4))
         THEN cliMBRLoop(i + 1,
                Append(rows, [MBRRecord(i, Len(rows) + 1)
                              EXCEPT !.Type = HexX(Byte(MBRSlotOffset(i) + 4))]))
    ELSE cliMBRLoop(i + 1, rows)

cliReadMBRPartitions(out) ==
    LET rows == cliMBRLoop(0, <<>>)
    IN  [out EXCEPT !.rows = rows,
                    !.messages = IF Len(rows) = 0
                                 THEN Append(@, "No partitions found") ELSE @]

\* string(partBytes[j]): the UTF-8 encoding of the code point partBytes[j]
Utf8(b) == IF b < 128 THEN <<b>> ELSE <<192 + (b \div 64), 128 + (b % 64)>>

\* partBytes is a buffer of its own (plen bytes read at base): an index at or
\* beyond plen panics
RECURSIVE cliNameScan(_, _, _)
cliNameScan(base, plen, j) ==
    IF j >= 56 + 72 THEN [panic |-> FALSE, name |-> <<>>]
    ELSE IF j + 1 >= plen THEN [panic |-> TRUE, name |-> <<>>]
    ELSE IF Byte(base + j) = 0 /\ Byte(base + j + 1) = 0 THEN [panic |-> FALSE, name |-> <<>>]
    ELSE LET rest == cliNameScan(base, plen, j + 2)
         IN  [rest EXCEPT !.name = (IF Byte(base + j + 1) = 0
                                    THEN Utf8(Byte(base + j)) ELSE <<>>) \o @]

cliGPTRecord(base, plen, partCount) ==
    LET startLBA == Bytes(base + 32, 8)
        endLBA   == Bytes(base + 40, 8)
        scan     == cliNameScan(base, plen, 56)
    IN  IF plen < 48 \/ scan.panic THEN [panic |-> TRUE, rec |-> NoInfo]
        ELSE [panic |-> FALSE,
              rec |-> [NoInfo EXCEPT !.Number = partCount,
                                     !.StartLBA = startLBA,
                                     !.EndLBA = endLBA,
                                     !.SizeNum = GPTSizeNum(startLBA, endLBA),
                                     !.Name = IF scan.name = <<>> THEN Unnamed ELSE scan.name]]

\* pos: the file position (int64); each turn reads esize bytes there and
\* stops at a short read
RECURSIVE cliGPTLoop(_, _, _, _, _)
cliGPTLoop(num, esize, i, pos, rows) ==
    LET avail == IF IsSmall(pos) /\ Val(pos) < dataLen THEN dataLen - Val(pos) ELSE 0
        scan  == GuidScan(Val(pos), Val(esize), 0)
        r     == cliGPTRecord(Val(pos), Val(esize), Len(rows) + 1)
        next  == Add(pos, Extend(esize, 8))
    IN  IF ~LtU(Digits(i, 4), num) THEN [panic |-> FALSE, parts |-> rows]
        ELSE IF ~(IsSmall(esize) /\ Val(esize) <= avail) THEN [panic |-> FALSE, parts |-> rows]
        ELSE IF scan = "panic" THEN [panic |-> TRUE, parts |-> rows]
        ELSE IF scan = "zero" THEN cliGPTLoop(num, esize, i + 1, next, rows)
        ELSE IF r.panic THEN [panic |-> TRUE, parts |-> rows]
        ELSE cliGPTLoop(num, esize, i + 1, next, Append(rows, r.rec))

cliReadGPTPartitions(out) ==
    IF dataLen < SECTOR_SIZE + 512
    THEN [out EXCEPT !.messages = Append(@, "Error reading GPT header")]
    ELSE IF Bytes(SECTOR_SIZE, 8) # GPT_SIGNATURE
    THEN [out EXCEPT !.messages = Append(@, "Invalid GPT signature")]
    ELSE LET revision == Bytes(SECTOR_SIZE + 8, 4)
             num      == Bytes(SECTOR_SIZE + 80, 4)
             esize    == Bytes(SECTOR_SIZE + 84, 4)
             lba      == Bytes(SECTOR_SIZE + 72, 8)
             \* file.Seek fails on a negative offset and leaves the position
             \* after the header
             pos      == IF Neg(TableOffset(lba)) THEN Digits(SECTOR_SIZE + 512, 8)
                         ELSE TableOffset(lba)
             loop     == cliGPTLoop(num, esize, 0, pos, <<>>)
             shown    == [out EXCEPT !.Rev = RevPair(revision), !.Count = num]
         IN  IF loop.panic THEN [shown EXCEPT !.panic = TRUE, !.exit = 2, !.rows = loop.parts]
             ELSE [shown EXCEPT !.rows = loop.parts,
                                !.messages = IF Len(loop.parts) = 0
                                             THEN Append(@, "No partitions found") ELSE @]

cliMain ==
    IF dataLen < SECTOR_SIZE
    THEN [NoOutput EXCEPT !.exit = 1, !.messages = <<"Error reading MBR">>]
    ELSE IF BootSignature(Bytes(510, 2)) # MBR_SIGNATURE
    THEN [NoOutput EXCEPT !.exit = 1, !.messages = <<"Invalid MBR signature">>]
    ELSE IF Byte(446 + 4) = 238
    THEN cliReadGPTPartitions([NoOutput EXCEPT !.TableType = "GPT"])
    ELSE cliReadMBRPartitions([NoOutput EXCEPT !.TableType = "MBR"])

CliMain ==
    /\ pc.cli = "idle"
    /\ cli' = cliMain
    /\ pc' = [pc EXCEPT !.cli = "done"]
    /\ UNCHANGED <<input, report>>

Next == AnalyzeDiskImage \/ CliMain

---------------------------------------------------------------------------
(* Inputs *)

MaxEntries == 2

MaxNameUnits == 3

U32(n) == Digits(n, 4)

U64(n) == Digits(n, 8)

\* 2^k as a w-digit number
Pow2(k, w) == [i \in 1..w |-> IF i = k \div 8 + 1 THEN 2 ^ (k % 8) ELSE 0]

AllOnes(w) == [i \in 1..w |-> 255]

GoodSig == <<85, 170>>

SigPairs == {GoodSig, <<170, 85>>, <<85, 0>>}

SizeValues == {U32(204800), Pow2(23, 4), AllOnes(4)}

EmptySlot == [status |-> 0, type |-> 0, start |-> U32(0), size |-> U32(0)]

SlotKinds(size) ==
    {[status |-> 0, type |-> t, start |-> U32(0), size |-> U32(0)] : t \in {0, 131, 238}}
    \cup {[status |-> 128, type |-> t, start |-> U32(2048), size |-> size] : t \in {0, 7, 131}}

ProtectiveMBR ==
    [sig |-> GoodSig,
     slots |-> <<[status |-> 0, type |-> 238, start |-> U32(1), size |-> AllOnes(4)],
                 EmptySlot, EmptySlot, EmptySlot>>]

GuidFirst == [i \in 1..16 |-> IF i = 1 THEN 40 ELSE 0]

GuidLast == [i \in 1..16 |-> IF i = 16 THEN 1 ELSE 0]

EntryKinds ==
    { [guid |-> Zeros(16), fill |-> 0, start |-> U64(0), end |-> U64(0), name |-> <<>>],
      [guid |-> Zeros(16), fill |-> 255, start |-> U64(34), end |-> U64(2047), name |-> <<65, 0>>],
      [guid |-> GuidFirst, fill |-> 0, start |-> U64(34), end |-> U64(2047),
       name |-> <<69, 0, 70, 0, 73, 0>>],
      [guid |-> GuidLast, fill |-> 0, start |-> U64(100), end |-> U64(50), name |-> <<>>],
      [guid |-> GuidFirst, fill |-> 255, start |-> U64(0), end |-> AllOnes(8),
       name |-> <<7, 0, 65, 0, 233, 0, 66, 1>>] }

RECURSIVE SeqsOf(_, _)
SeqsOf(S, n) ==
    IF n = 0 THEN {<<>>}
    ELSE {Append(q, x) : q \in SeqsOf(S, n - 1), x \in S}

StrideFor(esize) == IF IsSmall(esize) /\ Val(esize) >= 1 /\ Val(esize) <= 128 THEN Val(esize) ELSE 128

StdHeader == [sig |-> GPT_SIGNATURE, revision |-> <<0, 0, 1, 0>>, lba |-> U64(2),
              num |-> U32(MaxEntries), esize |-> U32(128)]

BadSig == <<69, 70, 73, 32, 80, 65, 82, 0>>

Idle ==
    /\ pc = [wasm |-> "idle", cli |-> "idle"]
    /\ report = NoReport
    /\ cli = NoOutput

InitMBR ==
    /\ dataLen \in {511, 512, 1024}
    /\ \E sg \in SigPairs, size \in SizeValues :
         \E sl \in SeqsOf(SlotKinds(size), 4) : mbr = [sig |-> sg, slots |-> sl]
    /\ hdr = StdHeader
    /\ ents = [stride |-> 128, list |-> <<>>]
    /\ Idle

InitGPT ==
    /\ dataLen \in {1023, 1024, 1056, 1152, 1280}
    /\ mbr = ProtectiveMBR
    /\ \E sg \in {GPT_SIGNATURE, BadSig},
          lba \in {U64(1), U64(2), U64(3), Pow2(54, 8), Pow2(55, 8)},
          num \in {U32(0), U32(1), U32(2), Pow2(25, 4)},
          esize \in {U32(0), U32(8), U32(16), U32(32), U32(128)} :
         /\ hdr = [sig |-> sg, revision |-> <<0, 0, 1, 0>>, lba |-> lba, num |-> num,
                   esize |-> esize]
         /\ \E l \in SeqsOf(EntryKinds, MaxEntries) : ents = [stride |-> StrideFor(esize), list |-> l]
    /\ Idle

NameUnits == {<<0, 0>>, <<65, 0>>, <<7, 0>>, <<31, 0>>, <<32, 0>>, <<126, 0>>, <<127, 0>>,
              <<233, 0>>, <<65, 1>>, <<0, 1>>}

RECURSIVE Flatten(_)
Flatten(q) == IF q = <<>> THEN <<>> ELSE Head(q) \o Flatten(Tail(q))

InitName ==
    /\ dataLen \in {1152, 1280}
    /\ mbr = ProtectiveMBR
    /\ \E esize \in {U32(64), U32(128)} :
         /\ hdr = [StdHeader EXCEPT !.num = U32(1), !.esize = esize]
         /\ \E n \in 0..MaxNameUnits : \E units \in SeqsOf(NameUnits, n) :
              ents = [stride |-> StrideFor(esize),
                      list |-> <<[guid |-> GuidFirst, fill |-> 0, start |-> U64(34),
                                  end |-> U64(2047), name |-> Flatten(units)]>>]
    /\ Idle

Init == InitMBR \/ InitGPT \/ InitName

Spec == Init /\ [][Next]_vars

SpecMBR == InitMBR /\ [][Next]_vars

SpecGPT == InitGPT /\ [][Next]_vars

SpecName == InitName /\ [][Next]_vars

---------------------------------------------------------------------------
(* Properties *)

WasmDone == pc.wasm = "done"

CliDone == pc.cli = "done"

\* what the image holds, read off its description
SigValue == mbr.sig[1] + 256 * mbr.sig[2]

Readable == dataLen >= SECTOR_SIZE /\ SigValue = MBR_SIGNATURE

IsGPTImage == Readable /\ mbr.slots[1].type = 238

IsMBRImage == Readable /\ mbr.slots[1].type # 238

HeaderValid == IsGPTImage /\ dataLen >= 2 * SECTOR_SIZE /\ hdr.sig = GPT_SIGNATURE

IsAdvisory(r) == r.Info # ""

\* exact integers: 16 digits hold every product and sum of the header fields
Wide(d) == Extend(d, 16)

ExactTableStart == Mul(Wide(hdr.lba), Digits(SECTOR_SIZE, 16))

ExactRequired == Add(ExactTableStart, Mul(Wide(hdr.num), Wide(hdr.esize)))

Truncated == LtU(Digits(dataLen, 16), ExactRequired)

FullyAvailable == HeaderValid /\ ~Truncated

\* entry i of the array (FullyAvailable: its offset is below dataLen)
EntryStart(i) == Val(hdr.lba) * SECTOR_SIZE + i * Val(hdr.esize)

EntryGuidZero(i) == \A j \in 0..15 : Byte(EntryStart(i) + j) = 0

\* the entries to look at: numPartitions of them, which all are the same
\* bytes when the entry size is 0
ScanCount ==
    IF hdr.esize = Zeros(4) THEN (IF hdr.num = Zeros(4) THEN 0 ELSE 1) ELSE Val(hdr.num)

UsedEntries == {i \in 0..(ScanCount - 1) : ~EntryGuidZero(i)}

\* C1: every byte index either reader dereferences lies inside its buffer,
\* whatever the header fields are: no run ends in an out-of-range panic
C1_NoOutOfBounds ==
    /\ WasmDone => ~report.panic
    /\ CliDone => ~cli.panic

\* C2: with the boot signature 0xAA55 the image is classified GPT exactly
\* when byte 450 is 0xEE and MBR otherwise; with any other signature the
\* analysis fails with the invalid-signature error, no table kind, no records
C2_Classification ==
    /\ (WasmDone /\ dataLen >= SECTOR_SIZE) =>
         IF SigValue = MBR_SIGNATURE
         THEN /\ report.Error = ""
              /\ report.TableType = (IF mbr.slots[1].type = 238 THEN "GPT" ELSE "MBR")
         ELSE /\ report.Error = "Invalid MBR signature"
              /\ report.TableType = ""
              /\ report.Partitions = <<>>
    /\ (CliDone /\ dataLen >= SECTOR_SIZE) =>
         IF SigValue = MBR_SIGNATURE
         THEN /\ cli.exit # 1
              /\ cli.TableType = (IF mbr.slots[1].type = 238 THEN "GPT" ELSE "MBR")
         ELSE /\ cli.exit = 1
              /\ cli.messages = <<"Invalid MBR signature">>
              /\ cli.TableType = ""
              /\ cli.rows = <<>>

\* C2 witness: both shells classified an image GPT whose slots 2 and 4 hold
\* other partition types
C2_Witness ==
    /\ WasmDone /\ CliDone
    /\ report.TableType = "GPT" /\ cli.TableType = "GPT"
    /\ mbr.slots[2].type = 131 /\ mbr.slots[4].type = 7

\* C3: a valid GPT header whose entry array does not fit in the buffer
\* (exact arithmetic) yields exactly one advisory record carrying the
\* required byte count, and no partition record
C3_TruncationAdvisory ==
    (WasmDone /\ HeaderValid /\ Truncated) =>
        /\ ~report.panic
        /\ Len(report.Partitions) = 1
        /\ IsAdvisory(report.Partitions[1])
        /\ ~Neg(report.Partitions[1].Required)
        /\ Wide(report.Partitions[1].Required) = ExactRequired

\* C4: the error field is set exactly for an input shorter than a sector or
\* with a bad boot signature, and then there are no records; a GPT image with
\* an anomaly is reported with no error, kind GPT and an advisory record
C4_ErrorOnlyForHardFailure ==
    WasmDone =>
        /\ ~report.panic
        /\ (report.Error # "") <=> ~Readable
        /\ (report.Error # "") => report.Partitions = <<>>
        /\ (IsGPTImage /\ (~HeaderValid \/ Truncated \/ UsedEntries = {})) =>
             /\ report.Error = ""
             /\ report.TableType = "GPT"
             /\ Len(report.Partitions) >= 1
             /\ \E k \in 1..Len(report.Partitions) : IsAdvisory(report.Partitions[k])

MBRSizesExact(recs) ==
    \A k \in 1..Len(recs) :
        recs[k].SizeNum = Mul(Extend(mbr.slots[recs[k].Number].size, 8), Digits(SECTOR_SIZE, 8))

\* C5: the byte count behind an MBR record's size is sizeInSectors * 512
\* exactly, for every 32-bit sizeInSectors
C5_ExactByteCount ==
    /\ (WasmDone /\ IsMBRImage) => MBRSizesExact(report.Partitions)
    /\ (CliDone /\ IsMBRImage) => MBRSizesExact(cli.rows)

StartLeEnd(recs) ==
    \A k \in 1..Len(recs) : ~IsAdvisory(recs[k]) => ~LtU(recs[k].EndLBA, recs[k].StartLBA)

\* C6: every GPT partition record has start LBA <= end LBA
C6_StartLeEnd ==
    /\ (WasmDone /\ IsGPTImage) => StartLeEnd(report.Partitions)
    /\ (CliDone /\ IsGPTImage) => StartLeEnd(cli.rows)

MBRSlotsReported(recs) ==
    /\ Len(recs) <= 4
    /\ \A k \in 1..Len(recs) : recs[k].Number \in 1..4
    /\ \A k \in 1..(Len(recs) - 1) : recs[k].Number < recs[k + 1].Number
    /\ \A n \in 1..4 : (mbr.slots[n].type # 0) <=> (\E k \in 1..Len(recs) : recs[k].Number = n)

\* C7: the MBR reader emits one record per slot with a nonzero type byte and
\* none for a slot with type byte 0; a record's number is its slot's 1-based
\* position, so the numbers increase strictly and stay within 1..4
C7_MBRSlots ==
    /\ (WasmDone /\ IsMBRImage) => MBRSlotsReported(report.Partitions)
    /\ (CliDone /\ IsMBRImage) => MBRSlotsReported(cli.rows)

\* C7 witness: an MBR image with slots 2 and 4 in use, slot 1 unused though its
\* status byte is set, reported by both shells
C7_Witness ==
    /\ WasmDone /\ CliDone /\ IsMBRImage
    /\ mbr.slots[1].type = 0 /\ mbr.slots[1].status = 128
    /\ mbr.slots[2].type = 131 /\ mbr.slots[3].type = 0 /\ mbr.slots[4].type = 7
    /\ Len(report.Partitions) = 2 /\ Len(cli.rows) = 2

RECURSIVE UsedInOrder(_, _)
UsedInOrder(i, n) ==
    IF i >= n THEN <<>>
    ELSE (IF EntryGuidZero(i) THEN <<>> ELSE <<i>>) \o UsedInOrder(i + 1, n)

RecordsOfUsed(recs) ==
    LET used == UsedInOrder(0, ScanCount)
        prs  == SelectSeq(recs, LAMBDA r : ~IsAdvisory(r))
    IN  /\ Len(prs) = Len(used)
        /\ \A k \in 1..Len(prs) :
             /\ prs[k].Number = k
             /\ prs[k].StartLBA = Bytes(EntryStart(used[k]) + 32, 8)
             /\ prs[k].EndLBA = Bytes(EntryStart(used[k]) + 40, 8)

\* C8: when the entry array is fully available, the records are those of the
\* entries with a nonzero type GUID, in scan order, numbered 1..k
C8_UsedEntriesReported ==
    (WasmDone /\ FullyAvailable) => (~report.panic /\ RecordsOfUsed(report.Partitions))

\* C9: a valid header with a fully available entry array in which no entry
\* has a type GUID yields the single advisory "no partitions found"
C9_NoPartitionsAdvisory ==
    (WasmDone /\ FullyAvailable /\ UsedEntries = {}) =>
        /\ ~report.panic
        /\ report.Error = ""
        /\ Len(report.Partitions) = 1
        /\ report.Partitions[1].Note = "No active partitions found in partition table"

RECURSIVE ClaimedName(_, _)
ClaimedName(base, j) ==
    IF j >= 56 + 72 THEN <<>>
    ELSE IF Byte(base + j) = 0 /\ Byte(base + j + 1) = 0 THEN <<>>
    ELSE (IF Byte(base + j + 1) = 0 /\ Byte(base + j) >= 32 /\ Byte(base + j) <= 126
          THEN <<Byte(base + j)>> ELSE <<>>) \o ClaimedName(base, j + 2)

NamesAsClaimed(recs) ==
    LET used == UsedInOrder(0, ScanCount)
    IN  \A k \in 1..Len(recs) :
            (~IsAdvisory(recs[k]) /\ k <= Len(used)) =>
                recs[k].Name = (IF ClaimedName(EntryStart(used[k]), 56) = <<>> THEN Unnamed
                                ELSE ClaimedName(EntryStart(used[k]), 56))

\* C10: the name of a used entry is its 72-byte name field scanned two bytes
\* at a time up to the first zero code unit, keeping the code units with a
\* zero high byte and a printable low byte (32..126); an empty result reads
\* "Unnamed"; both shells decode alike
C10_NameDecoding ==
    /\ (WasmDone /\ FullyAvailable) => NamesAsClaimed(report.Partitions)
    /\ (CliDone /\ FullyAvailable) => NamesAsClaimed(cli.rows)

====
